---- MODULE Spec2Model ----
(***************************************************************************)
(* The fluent validation chain of src/src/validation.js.                   *)
(*                                                                         *)
(* Validation is a class used through its static methods only: the chain   *)
(* state (value, innerErrorMessage, errors, optional, valid, prefixError)  *)
(* lives in static properties of the class, and every method returns the   *)
(* class.  errors is a reference to a list the caller owns; the model      *)
(* keeps the caller's lists in a small heap, lists, indexed by ListIds.    *)
(***************************************************************************)
EXTENDS Integers, Sequences, FiniteSets, TLC

\* The most messages the model lets the caller's lists hold, all together.
MaxErrors == 2

(***************************************************************************)
(* JavaScript values.  t is the result of typeof, with "null" and "array"  *)
(* told apart from "object"; s is the text of a string (or the kind of a   *)
(* number: "int", "frac", "NaN"); n is the value of an integer, the truth  *)
(* of a boolean or the number of own properties of an object; a holds the  *)
(* elements of an array.                                                   *)
(***************************************************************************)
Val(t, s, n, a) == [t |-> t, s |-> s, n |-> n, a |-> a]

Undefined == Val("undefined", "", 0, <<>>)

Null == Val("null", "", 0, <<>>)

Str(s) == Val("string", s, 0, <<>>)

IntNum(n) == Val("number", "int", n, <<>>)

Frac == Val("number", "frac", 1, <<>>)

NaN == Val("number", "NaN", 0, <<>>)

Bool(b) == Val("boolean", "", IF b THEN 1 ELSE 0, <<>>)

Arr(a) == Val("array", "", 0, a)

Obj(n) == Val("object", "", n, <<>>)

\* Strings the external validators accept.
EmailText == "a@b.co"

GuidText == "6ba7b810-9dad-11d1-80b4-00c04fd430c8"

ObjectIdText == "507f1f77bcf86cd799439011"

IsoDateText == "2020-01-31"

DurationText == "P1D"

\* A string Joi.number() converts to a number.
NumericText == "5"

\* The values a chain is asked to validate.
Values ==
    { Undefined, Null,
      Str(""), Str("a"), Str(NumericText), Str(DurationText), Str(EmailText),
      Str(GuidText), Str(ObjectIdText), Str(IsoDateText),
      IntNum(5), Frac, NaN, Bool(TRUE),
      Arr(<<>>), Arr(<<Str("a")>>), Arr(<<Str("a"), Str("c")>>),
      Obj(0), Obj(1) }

\* The caller's error lists, and the prefix the caller uses with each.
ListIds == {1, 2}

PrefixOf(l) == IF l = 1 THEN "" ELSE "f."

\* The message bundle the caller supplies.
Messages == [required |-> "required", invalid |-> "invalid"]

\* JavaScript truthiness.
Truthy(v) ==
    CASE v.t \in {"undefined", "null"} -> FALSE
      [] v.t = "string" -> v.s # ""
      [] v.t = "number" -> ~(v.s = "NaN" \/ (v.s = "int" /\ v.n = 0))
      [] v.t = "boolean" -> v.n = 1
      [] OTHER -> TRUE

\* Array.isArray
IsArray(v) == v.t = "array"

\* a === b: primitives by value (NaN equals nothing), objects by reference;
\* an argument array and the chain's value are never the same object.
StrictEquals(a, b) ==
    /\ a.t \in {"undefined", "null", "string", "number", "boolean"}
    /\ ~(a.t = "number" /\ a.s = "NaN")
    /\ a = b

\* array.indexOf(v) > -1
IndexOfFound(arr, v) == \E i \in 1..Len(arr.a) : StrictEquals(arr.a[i], v)

(***************************************************************************)
(* The Joi schemas the checks build.  kind names the schema; allowEmpty is *)
(* .allow(''); min and max are the arguments of .min() and .max()          *)
(* (Undefined when the check sets none).                                   *)
(***************************************************************************)
Schema(kind, allowEmpty, min, max) ==
    [kind |-> kind, allowEmpty |-> allowEmpty, min |-> min, max |-> max]

JoiString == Schema("string", FALSE, Undefined, Undefined)

\* schema.validate(value).error is set
SchemaError(schema, v) ==
    CASE schema.kind = "string" ->
           \/ v.t # "string"
           \/ /\ v.s = ""
              /\ ~schema.allowEmpty
           \/ /\ v.s # ""
              /\ \/ schema.min.t = "number" /\ Len(v.s) < schema.min.n
                 \/ schema.max.t = "number" /\ Len(v.s) > schema.max.n
      [] schema.kind = "email" -> ~(v.t = "string" /\ v.s = EmailText)
      [] schema.kind = "guid" -> ~(v.t = "string" /\ v.s = GuidText)
      [] schema.kind = "dateIso" -> ~(v.t = "string" /\ v.s = IsoDateText)
      [] schema.kind = "integer" ->
           ~(v.t = "number" /\ v.s = "int") /\ v # Str(NumericText)
      [] schema.kind = "number" ->
           ~(v.t = "number" /\ v.s \in {"int", "frac"}) /\ v # Str(NumericText)
      [] schema.kind = "boolean" -> v.t # "boolean"
      [] schema.kind = "object" -> v.t # "object"
      [] schema.kind = "array" -> v.t # "array"

\* ObjectID.isValid(value): numbers and 24-digit hexadecimal strings (and
\* strings of 12 characters, of which Values holds none).
ObjectIDIsValid(v) == v.t = "number" \/ (v.t = "string" /\ v.s = ObjectIdText)

\* tinyduration.parse(value) throws
DurationParseThrows(v) == ~(v.t = "string" /\ v.s = DurationText)

VARIABLES
    value,              \* Validation.value
    innerErrorMessage,  \* Validation.innerErrorMessage
    errors,             \* Validation.errors: the list the chain is bound to
    optional,           \* Validation.optional
    valid,              \* Validation.valid
    prefixError,        \* Validation.prefixError
    lists,              \* the caller's lists: ListIds -> sequence of strings
    moduleValid,        \* `valid` of the module-level `this` of validation.js
    last                \* the call that was made last, and how it ended

vars == <<value, innerErrorMessage, errors, optional, valid, prefixError,
          lists, moduleValid, last>>

chain == <<value, innerErrorMessage, errors, optional, prefixError>>

\* The record of a call: its name, its arguments, how often it invoked the
\* callback it was given or, for a check with a second rule, applied that
\* rule to the value (searched the enum list, ran the duration parser,
\* inspected the properties, read the length), and whether it threw.
Call(name, args, calls, threw) ==
    [name |-> name, args |-> args, calls |-> calls, threw |-> threw]

_isNullOrUndefined(v) == v.t \in {"null", "undefined"}

_isEmptyObject(v) == v.n = 0

\* A _verifyNullOrUndefined that reports an optional missing value as valid.
_verifyNullOrUndefined_OptionalValid(opt, v, msgs, prefix) ==
    IF opt /\ _isNullOrUndefined(v)
    THEN [isNullOrUndefined |-> TRUE, valid |-> TRUE, push |-> <<>>, wrote |-> FALSE]
    ELSE IF ~_isNullOrUndefined(v)
    THEN [isNullOrUndefined |-> FALSE, valid |-> TRUE, push |-> <<>>, wrote |-> FALSE]
    ELSE [isNullOrUndefined |-> TRUE, valid |-> FALSE,
          push |-> <<prefix \o msgs.required>>, wrote |-> TRUE]

\* Returns { isNullOrUndefined, valid }; push is what it appended to errors
\* and wrote is whether it assigned `this.valid = false`, `this` being the
\* module's, not the class.
_verifyNullOrUndefined(opt, v, msgs, prefix) ==
    IF opt /\ _isNullOrUndefined(v)
    THEN [isNullOrUndefined |-> TRUE, valid |-> FALSE, push |-> <<>>, wrote |-> FALSE]
    ELSE IF ~_isNullOrUndefined(v)
    THEN [isNullOrUndefined |-> FALSE, valid |-> TRUE, push |-> <<>>, wrote |-> FALSE]
    ELSE [isNullOrUndefined |-> TRUE, valid |-> FALSE,
          push |-> <<prefix \o msgs.required>>, wrote |-> TRUE]

\* Returns a boolean (ret); push and wrote as above.
_validation(schema, opt, v, msgs, prefix) ==
    LET r == _verifyNullOrUndefined(opt, v, msgs, prefix)
    IN  IF r.isNullOrUndefined
        THEN [ret |-> r.valid, push |-> r.push, wrote |-> r.wrote]
        ELSE IF ~SchemaError(schema, v)
        THEN [ret |-> r.valid, push |-> r.push, wrote |-> r.wrote]
        ELSE [ret |-> FALSE, push |-> r.push \o <<prefix \o msgs.invalid>>,
              wrote |-> r.wrote]

\* The number of messages in the caller's lists.
RECURSIVE Sum(_, _)
Sum(f, S) == IF S = {} THEN 0 ELSE LET x == CHOOSE y \in S : TRUE
                                   IN  Len(f[x]) + Sum(f, S \ {x})

Held == Sum(lists, ListIds)

\* A check that puts its messages at the head of the list (unshift for push).
Finish_Unshift(call, newValid, push, wrote) ==
    /\ Held + Len(push) <= MaxErrors
    /\ lists' = [lists EXCEPT ![errors] = push \o @]
    /\ valid' = newValid
    /\ moduleValid' = IF wrote THEN Bool(FALSE) ELSE moduleValid
    /\ last' = call
    /\ UNCHANGED chain

\* What every check leaves behind: the messages it pushed on the bound list,
\* the verdict it assigned, and the module-level write.
Finish(call, newValid, push, wrote) ==
    /\ Held + Len(push) <= MaxErrors
    /\ lists' = [lists EXCEPT ![errors] = @ \o push]
    /\ valid' = newValid
    /\ moduleValid' = IF wrote THEN Bool(FALSE) ELSE moduleValid
    /\ last' = call
    /\ UNCHANGED chain

Init ==
    /\ \E v \in Values, l \in ListIds :
          /\ value = v
          /\ errors = l
          /\ prefixError = PrefixOf(l)
    /\ innerErrorMessage = Messages
    /\ optional = FALSE
    /\ valid = TRUE
    /\ lists = [l \in ListIds |-> <<>>]
    /\ moduleValid = Undefined
    /\ last = Call("validate", <<value, IntNum(errors), Str(prefixError)>>, 0, FALSE)

\* A validate that forgets to withdraw the optional flag of the chain before.
validate_KeepsOptional(v, msgs, errs, prefix) ==
    /\ value' = v
    /\ innerErrorMessage' = msgs
    /\ errors' = errs
    /\ valid' = TRUE
    /\ prefixError' = prefix
    /\ last' = Call("validate", <<v, IntNum(errs), Str(prefix)>>, 0, FALSE)
    /\ UNCHANGED <<optional, lists, moduleValid>>

validate(v, msgs, errs, prefix) ==
    /\ value' = v
    /\ innerErrorMessage' = msgs
    /\ errors' = errs
    /\ optional' = FALSE
    /\ valid' = TRUE
    /\ prefixError' = prefix
    /\ last' = Call("validate", <<v, IntNum(errs), Str(prefix)>>, 0, FALSE)
    /\ UNCHANGED <<lists, moduleValid>>

\* An isOptional that also forgives the failures recorded so far.
isOptional_ResetsValid ==
    /\ optional' = TRUE
    /\ valid' = TRUE
    /\ last' = Call("isOptional", <<>>, 0, FALSE)
    /\ UNCHANGED <<value, innerErrorMessage, errors, prefixError,
                   lists, moduleValid>>

isOptional ==
    /\ optional' = TRUE
    /\ last' = Call("isOptional", <<>>, 0, FALSE)
    /\ UNCHANGED <<value, innerErrorMessage, errors, valid, prefixError,
                   lists, moduleValid>>

\* The arguments isString is called with: no bounds or both bounds, and a
\* notAllowedValues that is absent, an array or (a caller's mistake) a string.
StringBounds ==
    { <<Undefined, Undefined>>, <<IntNum(0), IntNum(1)>>, <<IntNum(2), IntNum(3)>> }

NotAllowedArgs == { Undefined, Arr(<<Str("a"), Null>>), Str("x") }

isString(minLength, maxLength, notAllowedValues) ==
    LET schema ==
            IF minLength.t = "undefined" /\ maxLength.t = "undefined"
            THEN Schema("string", TRUE, Undefined, Undefined)
            ELSE IF minLength = IntNum(0)
            THEN Schema("string", TRUE, minLength, maxLength)
            ELSE Schema("string", FALSE, minLength, maxLength)
        r == _validation(schema, optional, value, innerErrorMessage, prefixError)
        throws == Truthy(notAllowedValues) /\ ~IsArray(notAllowedValues)
        listed == /\ ~throws
                  /\ IsArray(notAllowedValues)
                  /\ IndexOfFound(notAllowedValues, value)
    IN  Finish(Call("isString", <<minLength, maxLength, notAllowedValues>>, 0, throws),
               r.ret,
               r.push \o (IF listed THEN <<innerErrorMessage.invalid>> ELSE <<>>),
               r.wrote)

\* The lists isStringEnum is called with.
EnumArgs == { Arr(<<Str("a")>>), Arr(<<Str("a"), Str(DurationText)>>) }

\* array.includes(v), for the strings it is asked about
Includes(arr, v) == \E i \in 1..Len(arr.a) : arr.a[i] = v

isStringEnum(enumArray) ==
    LET r == _validation(JoiString, optional, value, innerErrorMessage, prefixError)
        returnsEarly == ~r.ret \/ value = Undefined
        fails == ~returnsEarly /\ ~Includes(enumArray, value)
    IN  Finish(Call("isStringEnum", <<enumArray>>, IF returnsEarly THEN 0 ELSE 1, FALSE),
               IF fails THEN FALSE ELSE r.ret,
               r.push \o (IF fails THEN <<prefixError \o innerErrorMessage.invalid>> ELSE <<>>),
               r.wrote)

\* A check that does nothing once an earlier check of the chain has failed.
Explicit_SkipsAfterFailure(call, passes) ==
    LET r == _verifyNullOrUndefined(optional, value, innerErrorMessage, prefixError)
        fails == ~r.isNullOrUndefined /\ ~passes
    IN  IF ~valid
        THEN Finish(call, valid, <<>>, FALSE)
        ELSE Finish(call,
                    IF fails THEN FALSE ELSE r.valid,
                    r.push \o (IF fails THEN <<prefixError \o innerErrorMessage.invalid>>
                                        ELSE <<>>),
                    r.wrote)

\* The shape isNumber, isFloat, isObjectId and custom share: the explicit
\* missing-value test, then a rule on the present value.
Explicit(call, passes) ==
    LET r == _verifyNullOrUndefined(optional, value, innerErrorMessage, prefixError)
        fails == ~r.isNullOrUndefined /\ ~passes
    IN  Finish(call,
               IF fails THEN FALSE ELSE r.valid,
               r.push \o (IF fails THEN <<prefixError \o innerErrorMessage.invalid>> ELSE <<>>),
               r.wrote)

\* An isNumber that leaves the type of the value to the schema, which
\* converts numeric strings.
isNumber_NoTypeCheck ==
    Explicit(Call("isNumber", <<>>, 0, FALSE),
             ~SchemaError(Schema("integer", FALSE, Undefined, Undefined), value))

isNumber ==
    Explicit(Call("isNumber", <<>>, 0, FALSE),
             /\ value.t = "number"
             /\ value.s # "NaN"
             /\ ~SchemaError(Schema("integer", FALSE, Undefined, Undefined), value))

isFloat ==
    Explicit(Call("isFloat", <<>>, 0, FALSE),
             /\ value.t = "number"
             /\ value.s # "NaN"
             /\ ~SchemaError(Schema("number", FALSE, Undefined, Undefined), value))

\* The checks that call _validation and drop what it returns.
Dropped(call, schema) ==
    LET r == _validation(schema, optional, value, innerErrorMessage, prefixError)
    IN  Finish(call, valid, r.push, r.wrote)

\* The checks that assign what _validation returns to valid.
Assigned(call, schema) ==
    LET r == _validation(schema, optional, value, innerErrorMessage, prefixError)
    IN  Finish(call, r.ret, r.push, r.wrote)

isDateISO ==
    Dropped(Call("isDateISO", <<>>, 0, FALSE),
            Schema("dateIso", FALSE, Undefined, Undefined))

isDateIS8601Duration ==
    LET r == _validation(JoiString, optional, value, innerErrorMessage, prefixError)
        fails == r.ret /\ DurationParseThrows(value)
    IN  Finish(Call("isDateIS8601Duration", <<>>, IF r.ret THEN 1 ELSE 0, FALSE),
               IF fails THEN FALSE ELSE r.ret,
               r.push \o (IF fails THEN <<prefixError \o innerErrorMessage.invalid>> ELSE <<>>),
               r.wrote)

isBoolean ==
    Dropped(Call("isBoolean", <<>>, 0, FALSE),
            Schema("boolean", FALSE, Undefined, Undefined))

isObject ==
    Assigned(Call("isObject", <<>>, 0, FALSE),
             Schema("object", FALSE, Undefined, Undefined))

isObjectNotEmpty ==
    LET r == _verifyNullOrUndefined(optional, value, innerErrorMessage, prefixError)
        v == _validation(Schema("object", FALSE, Undefined, Undefined),
                         optional, value, innerErrorMessage, prefixError)
        throws == v.ret /\ _isNullOrUndefined(value)
        fails == v.ret /\ ~throws /\ _isEmptyObject(value)
    IN  IF r.isNullOrUndefined
        THEN Finish(Call("isObjectNotEmpty", <<>>, 0, FALSE), r.valid, r.push, r.wrote)
        ELSE Finish(Call("isObjectNotEmpty", <<>>, IF v.ret THEN 1 ELSE 0, throws),
                    IF fails THEN FALSE ELSE v.ret,
                    r.push \o v.push
                      \o (IF fails THEN <<prefixError \o innerErrorMessage.invalid>> ELSE <<>>),
                    r.wrote \/ v.wrote)

isObjectId ==
    Explicit(Call("isObjectId", <<>>, 0, FALSE), ObjectIDIsValid(value))

isEmail ==
    Assigned(Call("isEmail", <<>>, 0, FALSE),
             Schema("email", FALSE, Undefined, Undefined))

isUUID ==
    Assigned(Call("isUUID", <<>>, 0, FALSE),
             Schema("guid", FALSE, Undefined, Undefined))

isArray ==
    Assigned(Call("isArray", <<>>, 0, FALSE),
             Schema("array", FALSE, Undefined, Undefined))

\* The lists isArrayMatch is called with; "." is the pattern of any one
\* character.
AllowedArgs == { Arr(<<Str("a"), Str("b")>>), Arr(<<Str(".")>>), Arr(<<>>) }

\* new RegExp(`^(${validArray.join('|')})$`, 'u').test(field): some
\* alternative matches the whole of field; joining no entry leaves the empty
\* alternative.
RegexTest(validArray, field) ==
    IF Len(validArray.a) = 0
    THEN field.s = ""
    ELSE \E i \in 1..Len(validArray.a) :
            IF validArray.a[i].s = "."
            THEN Len(field.s) = 1
            ELSE validArray.a[i].s = field.s

\* An isArrayMatch that refuses a single string instead of wrapping it.
isArrayMatch_NoStringWrap(validArray) ==
    Explicit(Call("isArrayMatch", <<validArray>>, 0, FALSE),
             /\ IsArray(value)
             /\ \A i \in 1..Len(value.a) : RegexTest(validArray, value.a[i]))

isArrayMatch(validArray) ==
    LET arrayValue == IF IsArray(value) THEN value.a ELSE <<value>>
    IN  Explicit(Call("isArrayMatch", <<validArray>>, 0, FALSE),
                 /\ IsArray(value) \/ value.t = "string"
                 /\ \A i \in 1..Len(arrayValue) : RegexTest(validArray, arrayValue[i]))

\* An isArrayNotEmpty that reads the length whatever the schema check said.
isArrayNotEmpty_NoEarlyReturn ==
    LET r == _validation(Schema("array", FALSE, Undefined, Undefined),
                         optional, value, innerErrorMessage, prefixError)
        fails == ~_isNullOrUndefined(value) /\ ~(Len(value.a) > 0)
    IN  Finish(Call("isArrayNotEmpty", <<>>, 0, FALSE),
               IF fails THEN FALSE ELSE r.ret,
               r.push \o (IF fails THEN <<prefixError \o innerErrorMessage.invalid>> ELSE <<>>),
               r.wrote)

\* Reading the length of null or undefined is a TypeError.
isArrayNotEmpty ==
    LET r == _validation(Schema("array", FALSE, Undefined, Undefined),
                         optional, value, innerErrorMessage, prefixError)
        throws == r.ret /\ _isNullOrUndefined(value)
        fails == r.ret /\ ~throws /\ ~(Len(value.a) > 0)
    IN  Finish(Call("isArrayNotEmpty", <<>>, IF r.ret THEN 1 ELSE 0, throws),
               IF fails THEN FALSE ELSE r.ret,
               r.push \o (IF fails THEN <<prefixError \o innerErrorMessage.invalid>> ELSE <<>>),
               r.wrote)

\* The predicates custom is called with, by name.  nestedChain validates
\* another field on its way and refuses the value:
\*   v => { Validation.validate(InnerValue, InnerMessages, list2, 'f.'); return false }
Predicates == { "alwaysTrue", "alwaysFalse", "isA", "nestedChain" }

\* The value and the message bundle of the chain nestedChain starts.
InnerValue == IntNum(5)

InnerMessages == [required |-> "inner.required", invalid |-> "inner.invalid"]

\* What func(value) returns.
Apply(func, v) ==
    CASE func = "alwaysTrue" -> Bool(TRUE)
      [] func = "alwaysFalse" -> Bool(FALSE)
      [] func = "isA" -> Bool(StrictEquals(v, Str("a")))
      [] func = "nestedChain" -> Bool(FALSE)

\* custom on a present value with nestedChain: func has run validate, which
\* replaced every field of the class; custom then assigns valid and pushes
\* through the fields it finds.
customNested(call) ==
    /\ Held + 1 <= MaxErrors
    /\ value' = InnerValue
    /\ innerErrorMessage' = InnerMessages
    /\ errors' = 2
    /\ optional' = FALSE
    /\ prefixError' = PrefixOf(2)
    /\ valid' = FALSE
    /\ lists' = [lists EXCEPT ![2] = @ \o <<PrefixOf(2) \o InnerMessages.invalid>>]
    /\ last' = call
    /\ UNCHANGED moduleValid

custom(func) ==
    LET call == Call("custom", <<Str(func)>>,
                     IF _isNullOrUndefined(value) THEN 0 ELSE 1, FALSE)
    IN  IF func = "nestedChain" /\ ~_isNullOrUndefined(value)
        THEN customNested(call)
        ELSE Explicit(call, Truthy(Apply(func, value)))

\* An isValid that runs func whatever the verdict.
isValid_Unconditional ==
    /\ last' = Call("isValid", <<>>, 1, FALSE)
    /\ UNCHANGED <<value, innerErrorMessage, errors, optional, valid,
                   prefixError, lists, moduleValid>>

\* func is run for its effect on the caller's data; it does not touch the
\* chain.
isValid ==
    /\ last' = Call("isValid", <<>>, IF valid THEN 1 ELSE 0, FALSE)
    /\ UNCHANGED <<value, innerErrorMessage, errors, optional, valid,
                   prefixError, lists, moduleValid>>

Next ==
    \/ \E v \in Values, l \in ListIds : validate(v, Messages, l, PrefixOf(l))
    \/ isOptional
    \/ \E b \in StringBounds, n \in NotAllowedArgs : isString(b[1], b[2], n)
    \/ \E e \in EnumArgs : isStringEnum(e)
    \/ isNumber
    \/ isFloat
    \/ isDateISO
    \/ isDateIS8601Duration
    \/ isBoolean
    \/ isObject
    \/ isObjectNotEmpty
    \/ isObjectId
    \/ isEmail
    \/ isUUID
    \/ isArray
    \/ \E a \in AllowedArgs : isArrayMatch(a)
    \/ isArrayNotEmpty
    \/ \E f \in Predicates : custom(f)
    \/ isValid

Spec == Init /\ [][Next]_vars

(***************************************************************************)
(* What the properties below speak of.                                     *)
(***************************************************************************)
CheckNames ==
    { "isString", "isStringEnum", "isNumber", "isFloat", "isDateISO",
      "isDateIS8601Duration", "isBoolean", "isObject", "isObjectNotEmpty",
      "isObjectId", "isEmail", "isUUID", "isArray", "isArrayMatch",
      "isArrayNotEmpty", "custom" }

\* The step is a call of a check.
CheckStep == last'.name \in CheckNames

\* The value under test is missing.
Missing == value.t \in {"null", "undefined"}

\* What the step appended to the list the chain is bound to.
Appended == SubSeq(lists'[errors], Len(lists[errors]) + 1, Len(lists'[errors]))

\* What the step appended to the list the chain is bound to after it.
Pushed == SubSeq(lists'[errors'], Len(lists[errors']) + 1, Len(lists'[errors']))

RequiredMessage == prefixError \o innerErrorMessage.required

InvalidMessage == prefixError \o innerErrorMessage.invalid

\* isString's length rule: a string within the bounds, the empty string
\* accepted when no bound is given or the lower bound is 0.
StringRuleFails(min, max, v) ==
    \/ v.t # "string"
    \/ /\ v.s = ""
       /\ ~(min.t = "undefined" /\ max.t = "undefined")
       /\ min # IntNum(0)
    \/ /\ v.s # ""
       /\ min.t = "number"
       /\ Len(v.s) < min.n \/ Len(v.s) > max.n

\* isString's notAllowedValues rule: the value is one of the list's entries.
StringListed(notAllowed, v) ==
    /\ notAllowed.t = "array"
    /\ \E i \in 1..Len(notAllowed.a) : notAllowed.a[i] = v

\* The present value v breaks the rule of the check called by c.
Violates(c, v) ==
    CASE c.name = "isString" ->
           StringRuleFails(c.args[1], c.args[2], v) \/ StringListed(c.args[3], v)
      [] c.name = "isStringEnum" ->
           v.t # "string" \/ \A i \in 1..Len(c.args[1].a) : c.args[1].a[i] # v
      [] c.name = "isNumber" -> ~(v.t = "number" /\ v.s = "int")
      [] c.name = "isFloat" -> ~(v.t = "number" /\ v.s # "NaN")
      [] c.name = "isDateISO" -> v # Str(IsoDateText)
      [] c.name = "isDateIS8601Duration" -> v # Str(DurationText)
      [] c.name = "isBoolean" -> v.t # "boolean"
      [] c.name = "isObject" -> v.t # "object"
      [] c.name = "isObjectNotEmpty" -> v.t # "object" \/ v.n = 0
      [] c.name = "isObjectId" -> ~(v.t = "number" \/ v = Str(ObjectIdText))
      [] c.name = "isEmail" -> v # Str(EmailText)
      [] c.name = "isUUID" -> v # Str(GuidText)
      [] c.name = "isArray" -> v.t # "array"
      [] c.name = "isArrayMatch" ->
           \/ v.t \notin {"array", "string"}
           \/ v.t = "string" /\ ~RegexTest(c.args[1], v)
           \/ v.t = "array" /\ \E i \in 1..Len(v.a) : ~RegexTest(c.args[1], v.a[i])
      [] c.name = "isArrayNotEmpty" -> v.t # "array" \/ Len(v.a) = 0
      [] c.name = "custom" -> ~Truthy(Apply(c.args[1].s, v))

\* C1: within one chain, whatever check, isOptional or isValid is called,
\* valid is never true again once it is false.
C1_ValidNeverRecovers ==
    [][(last'.name # "validate" /\ ~valid) => ~valid']_vars

\* C2: on a missing value with optional=true every check call leaves valid
\* as it was before the call.
C2_OptionalMissingKeepsValid ==
    [][(CheckStep /\ Missing /\ optional) => valid' = valid]_vars

\* C3: every check call that fails (the value missing with optional=false,
\* or present and breaking the check's rule) returns with valid=false.
C3_FailureClearsValid ==
    [][(/\ CheckStep
        /\ ~last'.threw
        /\ \/ Missing /\ ~optional
           \/ ~Missing /\ Violates(last', value)) => ~valid']_vars

\* C4: on a missing value with optional=false every check call appends
\* exactly one message, prefixError + innerErrorMessage.required, and no
\* invalid message.
C4_RequiredMissingOneMessage ==
    [][(CheckStep /\ Missing /\ ~optional) => Appended = <<RequiredMessage>>]_vars

\* C5: on a missing value with optional=true every check call, whatever its
\* arguments, appends nothing to errors.
C5_OptionalMissingAppendsNothing ==
    [][(CheckStep /\ Missing /\ optional) => Appended = <<>>]_vars

\* C6: every message a chain appends is prefixError + innerErrorMessage.required
\* or prefixError + innerErrorMessage.invalid.
C6_EveryMessagePrefixed ==
    [][last'.name # "validate" =>
          \A i \in 1..Len(Appended) :
             Appended[i] \in {RequiredMessage, InvalidMessage}]_vars

\* C7: a present value that breaks the rule of a check other than isString
\* gets exactly one invalid message from one call; isString appends one
\* invalid message when its length rule fails and one when the value is in
\* notAllowedValues, each whatever the other did, so at most two.
C7_OneInvalidPerCall ==
    [][(CheckStep /\ ~Missing) =>
          IF last'.name = "isString"
          THEN /\ Len(Appended) =
                    (IF StringRuleFails(last'.args[1], last'.args[2], value) THEN 1 ELSE 0)
                  + (IF StringListed(last'.args[3], value) THEN 1 ELSE 0)
               /\ \A i \in 1..Len(Appended) :
                     Appended[i] \in {InvalidMessage, innerErrorMessage.invalid}
          ELSE Violates(last', value) =>
                  Pushed = <<prefixError' \o innerErrorMessage'.invalid>>]_vars

\* C7's case: isArrayNotEmpty, whose schema check accepted the array, has
\* refused [] with one invalid message.
C7_Witness ==
    /\ last.name = "isArrayNotEmpty"
    /\ value = Arr(<<>>)
    /\ ~valid
    /\ lists[errors] = <<prefixError \o innerErrorMessage.invalid>>

\* C8: when isString throws for a notAllowedValues that is not an array, the
\* call has appended nothing to errors and has not changed valid.
C8_ThrowBeforeAnyEffect ==
    [][last'.threw => (lists' = lists /\ valid' = valid)]_vars

\* C9: isValid(fn) invokes fn once when valid is true and never when it is
\* false, and leaves value, optional, valid and errors as they were.
C9_IsValidFrame ==
    [][last'.name = "isValid" =>
          /\ last'.calls = (IF valid THEN 1 ELSE 0)
          /\ ~last'.threw
          /\ UNCHANGED <<value, optional, valid, errors, lists>>]_vars

\* C9's case: isValid was called on a failed chain and did not run fn.
C9_Witness ==
    /\ last.name = "isValid"
    /\ ~valid
    /\ last.calls = 0
    /\ Len(lists[errors]) > 0

\* C10: validate installs its arguments and optional=false, valid=true,
\* whatever the chain before left; from then on no list but the one just
\* bound is appended to.
C10_ValidateReinitializes ==
    [][/\ last'.name = "validate" =>
            /\ value' = last'.args[1]
            /\ errors' = last'.args[2].n
            /\ prefixError' = last'.args[3].s
            /\ optional' = FALSE
            /\ valid' = TRUE
            /\ lists' = lists
       /\ \A l \in ListIds : l # errors' => lists'[l] = lists[l]]_vars

\* C10's case: list 1 holds the message of an earlier chain, validate has
\* bound list 2 and a check of the new chain has appended there.
C10_Witness ==
    /\ last.name \in CheckNames
    /\ errors = 2
    /\ ~optional
    /\ Len(lists[1]) = 1
    /\ Len(lists[2]) = 1

\* s is a prefix of t.
IsPrefix(s, t) == Len(s) <= Len(t) /\ SubSeq(t, 1, Len(s)) = s

\* C11: whatever is called, each of the caller's lists only grows at its
\* end: what it held before the call is an unchanged prefix of what it
\* holds after.
C11_AppendOnly ==
    [][\A l \in ListIds : IsPrefix(lists[l], lists'[l])]_vars

\* C11's case: isArrayMatch, which appends one message at most, has left a
\* second message behind the one the list held.
C11_Witness ==
    /\ last.name = "isArrayMatch"
    /\ Len(lists[errors]) = 2
    /\ lists[errors][2] = prefixError \o innerErrorMessage.invalid

\* The messages of one call c, as a function of the value, the optional
\* flag, the message bundle, the prefix and the call's arguments alone.
Emits(c, v, opt, msgs, prefix) ==
    LET listed == IF c.name = "isString" /\ StringListed(c.args[3], v)
                  THEN <<msgs.invalid>> ELSE <<>>
    IN  IF v.t \in {"null", "undefined"}
        THEN (IF opt THEN <<>> ELSE <<prefix \o msgs.required>>) \o listed
        ELSE IF c.name = "isString"
        THEN (IF StringRuleFails(c.args[1], c.args[2], v)
              THEN <<prefix \o msgs.invalid>> ELSE <<>>) \o listed
        ELSE IF c.name = "custom" /\ c.args[1] = Str("nestedChain")
        THEN <<PrefixOf(2) \o InnerMessages.invalid>>
        ELSE IF Violates(c, v) THEN <<prefix \o msgs.invalid>> ELSE <<>>

\* C12: the messages a check call appends are decided by value, optional,
\* the message bundle, prefixError and the call's arguments, whatever valid
\* was before the call: no check is skipped because an earlier one failed.
C12_IndependentOfValid ==
    [][CheckStep =>
          Pushed = Emits(last', value, optional, innerErrorMessage, prefixError)]_vars

\* C12's case: isFloat has added its message behind the message of an
\* earlier failure.
C12_Witness ==
    /\ last.name = "isFloat"
    /\ value = Str("a")
    /\ ~optional
    /\ ~valid
    /\ lists[errors] = <<prefixError \o innerErrorMessage.invalid,
                         prefixError \o innerErrorMessage.invalid>>

\* Every element of the array v, or the single string v, is one of the
\* entries of allowed.
EntriesAccept(allowed, v) ==
    \/ /\ v.t = "array"
       /\ \A i \in 1..Len(v.a) : \E j \in 1..Len(allowed.a) : allowed.a[j] = v.a[i]
    \/ /\ v.t = "string"
       /\ \E j \in 1..Len(allowed.a) : allowed.a[j] = v

\* Every element of the array v, or the single string v, matches the
\* anchored pattern ^(e1|...|en)$ joined from the entries of allowed.
PatternAccepts(allowed, v) ==
    \/ /\ v.t = "array"
       /\ \A i \in 1..Len(v.a) : RegexTest(allowed, v.a[i])
    \/ /\ v.t = "string"
       /\ RegexTest(allowed, v)

\* C13 as claimed: isArrayMatch on a present value appends nothing and ends
\* with valid=true when every element (or the single string) is one of the
\* entries of allowedList, and otherwise appends exactly one invalid message
\* and ends with valid=false.
C13_EntriesDecide ==
    [][(last'.name = "isArrayMatch" /\ ~Missing) =>
          IF EntriesAccept(last'.args[1], value)
          THEN Pushed = <<>> /\ valid'
          ELSE Pushed = <<InvalidMessage>> /\ ~valid']_vars

\* C13 as amended: the same, with "is one of the entries" replaced by
\* "matches the anchored pattern built from the entries joined by |".
C13_PatternDecides ==
    [][(last'.name = "isArrayMatch" /\ ~Missing) =>
          IF PatternAccepts(last'.args[1], value)
          THEN Pushed = <<>> /\ valid'
          ELSE Pushed = <<InvalidMessage>> /\ ~valid']_vars

\* C13's case: isArrayMatch(["."]) has accepted "a", which is no entry of
\* the list but matches its pattern.
C13_Witness ==
    /\ last.name = "isArrayMatch"
    /\ last.args = <<Arr(<<Str(".")>>)>>
    /\ value = Str("a")
    /\ valid
    /\ lists[errors] = <<>>

\* C14: isNumber on a present value ends with valid=true and nothing
\* appended exactly when the value is of numeric type, is not NaN and is an
\* integer; every other present value ("5", NaN, 1.5, ...) ends with
\* valid=false and exactly one invalid message.
C14_IsNumber ==
    [][(last'.name = "isNumber" /\ ~Missing) =>
          IF value.t = "number" /\ value.s = "int"
          THEN Pushed = <<>> /\ valid'
          ELSE Pushed = <<InvalidMessage>> /\ ~valid']_vars

\* C14's case: isNumber has refused the numeric string "5".
C14_Witness ==
    /\ last.name = "isNumber"
    /\ value = Str(NumericText)
    /\ ~valid
    /\ lists[errors] = <<prefixError \o innerErrorMessage.invalid>>

\* C15: isOptional, wherever in the chain it is called, sets optional=true
\* and leaves value, valid, errors and the lists as they were; a required
\* message appended before stays.
C15_IsOptionalFrame ==
    [][last'.name = "isOptional" =>
          /\ optional'
          /\ ~last'.threw
          /\ UNCHANGED <<value, valid, errors, lists>>]_vars

\* C15's case: isOptional was called after a check had reported the value
\* missing; the required message and valid=false are still there.
C15_Witness ==
    /\ last.name = "isOptional"
    /\ optional
    /\ value \in {Null, Undefined}
    /\ ~valid
    /\ lists[errors] = <<prefixError \o innerErrorMessage.required>>

\* C16: when the predicate given to custom runs another validate chain
\* (another value, list, bundle and prefix) and returns falsy, custom
\* appends the outer chain's invalid message to the outer chain's list, and
\* the chain goes on with the outer chain's value and optional flag.
C16_NestedChainKeepsOuter ==
    [][(/\ last'.name = "custom"
        /\ last'.args[1] = Str("nestedChain")
        /\ ~Missing
        /\ errors # 2) =>
          /\ lists'[errors] = lists[errors] \o <<InvalidMessage>>
          /\ lists'[2] = lists[2]
          /\ value' = value
          /\ optional' = optional
          /\ errors' = errors]_vars

\* C17: in a chain that validate started on an empty list, after any
\* isOptional and check calls, valid is false exactly when errors holds a
\* message.  A list that is empty after a call was empty when the chain
\* started, so "valid is false only if errors is non-empty" is stated of
\* every call; "errors non-empty only if valid is false" is stated of the
\* first call after such a validate.
C17_ValidIffNoErrors ==
    [][(/\ last'.name \in CheckNames \cup {"isOptional"}
        /\ ~last'.threw
        /\ errors' = errors) =>
          /\ lists'[errors] = <<>> => valid'
          /\ (last.name = "validate" /\ lists[errors] = <<>> /\ lists'[errors] # <<>>)
                => ~valid']_vars

\* The arguments of the call are well formed: notAllowedValues is absent or
\* an array (the lists and predicates of the other checks always are).
WellFormed(c) ==
    c.name = "isString" => ~(Truthy(c.args[3]) /\ c.args[3].t # "array")

\* C18: on a missing value, optional or not, no check with well-formed
\* arguments throws; isStringEnum does not search the enum list,
\* isDateIS8601Duration does not run the parser, isObjectNotEmpty does not
\* inspect the properties and isArrayNotEmpty does not read the length.
C18_MissingNeverThrows ==
    [][(CheckStep /\ Missing /\ WellFormed(last')) =>
          /\ ~last'.threw
          /\ last'.name \in {"isStringEnum", "isDateIS8601Duration",
                             "isObjectNotEmpty", "isArrayNotEmpty"}
                => last'.calls = 0]_vars

\* C18's case: isArrayNotEmpty has returned from an optional chain on
\* undefined without reading its length.
C18_Witness ==
    /\ last.name = "isArrayNotEmpty"
    /\ value = Undefined
    /\ optional
    /\ ~last.threw
    /\ last.calls = 0
    /\ lists[errors] = <<>>
====
